---- MODULE Spec2Model ----
(***************************************************************************)
(* A model of app.py, the Streamlit image-classifier front end.            *)
(*                                                                         *)
(* One browser session is modelled in full: every user interaction starts  *)
(* a rerun of main(), which is followed block by block (pc).  The two      *)
(* process-wide Streamlit caches (st.cache_resource for load_model and     *)
(* st.cache_data for fetch_image_from_url) are shared with other sessions  *)
(* of the same process; those sessions are modelled by the calls they make *)
(* into the two cached functions.                                          *)
(*                                                                         *)
(* Encoded images are records: fmt is the container, pix names the picture,*)
(* turned says whether the stored pixel grid is rotated, orient is the     *)
(* EXIF orientation tag (1 = upright, 6 = rotate).  Decoding applies the   *)
(* tag; saving as PNG stores the decoded grid without a tag.               *)
(***************************************************************************)
EXTENDS Integers, Sequences, FiniteSets

VARIABLES
    model_cache,     \* st.cache_resource entry of load_model: "empty" or the handle
    model_loads,     \* observer: how many times MobileNetV2(weights=...) was constructed
    url_cache,       \* st.cache_data entries of fetch_image_from_url, by URL
    first_fetch,     \* observer: image of the first successful fetch of each URL
    http_gets,       \* observer: HTTP GETs issued by the current rerun
    cache_hit,       \* observer: the URL had been fetched before this rerun's request
    failed,          \* observer: the URLs a load of this session has failed on
    session_state,   \* st.session_state: img_bytes, img_source
    origin,          \* observer: the block of main() that last assigned img_bytes
    written,         \* observer: the session fields assigned by the last load block
    uploaded_file,   \* the file picker's content
    url,             \* the URL text field
    load_btn,        \* the "Load from URL" button, TRUE in the rerun a click starts
    topk,            \* sidebar slider
    threshold,       \* sidebar slider, in hundredths
    do_center_crop,  \* sidebar checkbox
    pc,              \* the block of main() the rerun is at
    model,           \* main's local: the model handle
    image,           \* main's local: the decoded image
    errors,          \* the st.error messages on the page
    shown,           \* the page's preview area: image and caption, or the hint
    trigger,         \* observer: the interaction that started the rerun
    before,          \* observer: session_state when the rerun started
    before_shown,    \* observer: the preview area when the rerun started
    box_in,          \* center_crop_square: the image size (w, h)
    box_out,         \* center_crop_square: the crop box
    preds,           \* the ranked probabilities of a prediction, in hundredths
    results          \* the predictions the page lists

vars == <<model_cache, model_loads, url_cache, first_fetch, http_gets, cache_hit, failed,
          session_state, origin, written, uploaded_file, url, load_btn, topk,
          threshold, do_center_crop, pc, model, image, errors, shown, trigger,
          before, before_shown, box_in, box_out, preds, results>>

appVars == <<model_cache, model_loads, url_cache, first_fetch, http_gets, cache_hit, failed,
             session_state, origin, written, uploaded_file, url, load_btn, topk,
             threshold, do_center_crop, pc, model, image, errors, shown, trigger,
             before, before_shown>>

cropVars == <<box_in, box_out>>

filterVars == <<preds, results>>

----------------------------------------------------------------------------
(* Values *)

Pix == {"A", "B"}

Bytes(f, p, t, o) == [fmt |-> f, pix |-> p, turned |-> t, orient |-> o]

\* Python's None in a bytes-valued place, and a key that is not in session_state.
NoneBytes == Bytes("None", "-", FALSE, 0)
AbsentBytes == Bytes("absent", "-", FALSE, 0)

\* Bytes that no decoder accepts.
JunkBytes == Bytes("junk", "-", FALSE, 0)

Img(p, t) == [pix |-> p, turned |-> t]
NoneImage == Img("-", FALSE)

\* The files the user can pick: a camera JPEG with a rotate tag, a PNG, a
\* file with a picture extension that is no picture.
JpegA == Bytes("jpg", "A", TRUE, 6)
PngB == Bytes("png", "B", FALSE, 1)
Files == {JpegA, PngB, JunkBytes}

URLs == {"u1", "u2"}

\* What a GET can come back with: a response (status, content-type, body),
\* or an exception of requests.get (unreachable host, timeout).
Response(s, c, b) == [status |-> s, ctype |-> c, body |-> b]
Responses ==
    {Response(200, c, b) : c \in {"image/png", "text/html"}, b \in {PngB, JpegA, JunkBytes}}
    \cup {Response(404, "text/html", JunkBytes), Response(0, "", JunkBytes)}

NoFile == NoneBytes


----------------------------------------------------------------------------
(* The functions of app.py *)

Ok(img) == [ok |-> TRUE, img |-> img]
Raise == [ok |-> FALSE, img |-> NoneImage]

\* Pillow's Image.open: the containers it identifies.
Decodable(b) == b.fmt \in {"jpg", "png"}

\* exif_safe_open: decode, convert to RGB, apply the EXIF orientation.
exif_safe_open(b) ==
    IF Decodable(b) THEN Ok(Img(b.pix, b.turned # (b.orient = 6))) ELSE Raise

\* img.save(buf, format="PNG"); buf.getvalue()
SavePng(img) == Bytes("png", img.pix, img.turned, 1)

\* The body of fetch_image_from_url on the response of its GET: requests.get
\* raises (status 0 stands for no response), raise_for_status raises on 4xx
\* and 5xx, the content-type is read and ignored, the body is decoded.
FetchBody(resp) ==
    IF resp.status = 0 THEN Raise
    ELSE IF resp.status >= 400 /\ resp.status < 600 THEN Raise
    ELSE exif_safe_open(resp.body)

\* st.cache_data entries.
Miss == [kind |-> "miss", img |-> NoneImage]
Value(img) == [kind |-> "value", img |-> img]
Failed == [kind |-> "error", img |-> NoneImage]

\* Plausible slips: nothing is stored; the failure is stored as well.
CacheStoreNothing(entry, result) == entry
CacheStoreFailures(entry, result) == IF result.ok THEN Value(result.img) ELSE Failed

\* st.cache_data: what the entry of a URL is after a call that ran the body.
CacheStore(entry, result) == IF result.ok THEN Value(result.img) ELSE entry

\* fetch_image_from_url behind st.cache_data: an entry answers the call with
\* what it holds (CacheStore decides what an entry can hold), otherwise the
\* body runs (one GET) and its result is stored.
fetch_image_from_url(entry, resp) ==
    IF entry.kind # "miss"
    THEN [result |-> IF entry.kind = "value" THEN Ok(entry.img) ELSE Raise,
          entry |-> entry, gets |-> 0]
    ELSE [result |-> FetchBody(resp),
          entry |-> CacheStore(entry, FetchBody(resp)), gets |-> 1]

\* A plausible slip: load_model without its cache decorator.
load_model_rebuilt(entry) ==
    [handle |-> "MobileNetV2", entry |-> "MobileNetV2", built |-> 1]

\* load_model behind st.cache_resource: the handle is built when the entry
\* is empty and kept for the life of the process.
load_model(entry) ==
    IF entry # "empty"
    THEN [handle |-> entry, entry |-> entry, built |-> 0]
    ELSE [handle |-> "MobileNetV2", entry |-> "MobileNetV2", built |-> 1]

\* Lines 71-74: a key missing from st.session_state is set to None.
InitSessionState(ss) ==
    [img_bytes |-> IF ss.img_bytes = AbsentBytes THEN NoneBytes ELSE ss.img_bytes,
     img_source |-> IF ss.img_source = "absent" THEN "None" ELSE ss.img_source]

\* The assignments of a block to st.session_state, as field |-> value.
NoAssign == [k \in {} |-> "None"]
UploadAssign(data) == [img_bytes |-> data, img_source |-> "file"]
\* A plausible slip: the URL block stores the bytes and leaves the tag.
UrlAssignBytesOnly(data) == [img_bytes |-> data]
UrlAssign(data) == [img_bytes |-> data, img_source |-> "URL"]
Assign(ss, asg) ==
    [img_bytes |-> IF "img_bytes" \in DOMAIN asg THEN asg.img_bytes ELSE ss.img_bytes,
     img_source |-> IF "img_source" \in DOMAIN asg THEN asg.img_source ELSE ss.img_source]

\* A plausible slip: the handler swallows the exception without st.error.
DecodeStoredSilent(ss) ==
    IF ss.img_bytes # NoneBytes /\ Decodable(ss.img_bytes)
    THEN exif_safe_open(ss.img_bytes) ELSE Ok(NoneImage)

\* Lines 99-104: the image the rerun decodes from session state.
DecodeStored(ss) ==
    IF ss.img_bytes # NoneBytes THEN exif_safe_open(ss.img_bytes) ELSE Ok(NoneImage)

\* Lines 106-111: the preview area.
Preview(img, ss) ==
    IF img # NoneImage
    THEN [what |-> "image", image |-> img, caption |-> ss.img_source]
    ELSE [what |-> "hint", image |-> NoneImage, caption |-> "None"]
NoPreview == [what |-> "none", image |-> NoneImage, caption |-> "None"]

----------------------------------------------------------------------------
(* The session: construction, user interactions, the blocks of main() *)

AppInit ==
    /\ model_cache = "empty"
    /\ model_loads = 0
    /\ url_cache = [u \in URLs |-> Miss]
    /\ first_fetch = [u \in URLs |-> NoneImage]
    /\ http_gets = 0
    /\ cache_hit = FALSE
    /\ failed = {}
    /\ session_state = [img_bytes |-> AbsentBytes, img_source |-> "absent"]
    /\ origin = "none"
    /\ written = {}
    /\ uploaded_file = NoFile
    /\ url = ""
    /\ load_btn = FALSE
    /\ pc = "idle"
    /\ model = "None"
    /\ image = NoneImage
    /\ errors = {}
    /\ shown = NoPreview
    /\ trigger = "none"
    /\ before = [img_bytes |-> AbsentBytes, img_source |-> "absent"]
    /\ before_shown = NoPreview

\* Lines 65-67: the widgets' ranges and defaults (the threshold in hundredths).
TopKMin == 1
TopKMax == 5
TopKDefault == 3
ThresholdMin == 0
ThresholdMax == 100
ThresholdDefault == 5
TopKRange == TopKMin..TopKMax

SidebarDefaults ==
    /\ topk = TopKDefault
    /\ threshold = ThresholdDefault
    /\ do_center_crop = TRUE

CropIdle == box_in = <<1, 1>> /\ box_out = <<0, 0, 0, 0>>

FilterIdle == preds = <<>> /\ results = <<>>

Init == AppInit /\ SidebarDefaults /\ CropIdle /\ FilterIdle

\* A widget event reruns main() from its first line on an empty page.
Rerun(how) ==
    /\ pc = "idle"
    /\ pc' = "load_model"
    /\ trigger' = how
    /\ before' = session_state
    /\ before_shown' = shown
    /\ model' = "None"
    /\ image' = NoneImage
    /\ errors' = {}
    /\ shown' = NoPreview
    /\ http_gets' = 0
    /\ cache_hit' = FALSE
    /\ written' = {}
    /\ UNCHANGED <<model_cache, model_loads, url_cache, first_fetch, failed,
                   session_state, origin, cropVars, filterVars>>

\* The browser opens the page: the first run of the script.
OpenPage ==
    /\ trigger = "none"
    /\ Rerun("open")
    /\ UNCHANGED <<uploaded_file, url, load_btn, topk, threshold, do_center_crop>>

\* The user picks a file in the file picker.
UploadFile ==
    /\ trigger # "none"
    /\ \E f \in Files : uploaded_file' = f
    /\ Rerun("upload")
    /\ UNCHANGED <<url, load_btn, topk, threshold, do_center_crop>>

\* The user removes the file from the file picker.
RemoveFile ==
    /\ trigger # "none"
    /\ uploaded_file # NoFile
    /\ uploaded_file' = NoFile
    /\ Rerun("remove")
    /\ UNCHANGED <<url, load_btn, topk, threshold, do_center_crop>>

\* The user edits the URL field and leaves it.
EditUrl ==
    /\ trigger # "none"
    /\ \E u \in (URLs \cup {""}) \ {url} : url' = u
    /\ Rerun("edit")
    /\ UNCHANGED <<uploaded_file, load_btn, topk, threshold, do_center_crop>>

\* The user clicks "Load from URL", with the URL field as it is or as just typed.
ClickLoad ==
    /\ trigger # "none"
    /\ \E u \in URLs \cup {""} : url' = u
    /\ load_btn' = TRUE
    /\ Rerun("click")
    /\ UNCHANGED <<uploaded_file, topk, threshold, do_center_crop>>

\* The user moves the Top-K slider.  main() reads the three sidebar controls
\* and uses none of them, so a rerun started by the threshold slider or by the
\* checkbox is this rerun with another widget's value changed.
ChangeControl ==
    /\ trigger # "none"
    /\ \E k \in TopKRange \ {topk} : topk' = k
    /\ Rerun("control")
    /\ UNCHANGED <<uploaded_file, url, load_btn, threshold, do_center_crop>>

\* Line 69: model = load_model(); building the model returns the handle.
LoadModel ==
    /\ pc = "load_model"
    /\ LET r == load_model(model_cache) IN
         /\ model' = r.handle
         /\ model_cache' = r.entry
         /\ model_loads' = model_loads + r.built
    /\ pc' = "init_state"
    /\ UNCHANGED <<url_cache, first_fetch, http_gets, cache_hit, failed, session_state, origin,
                   written, uploaded_file, url, load_btn, topk, threshold,
                   do_center_crop, image, errors, shown, trigger, before,
                   before_shown, cropVars, filterVars>>

\* Lines 71-74.
InitState ==
    /\ pc = "init_state"
    /\ session_state' = InitSessionState(session_state)
    /\ pc' = "file_upload"
    /\ UNCHANGED <<model_cache, model_loads, url_cache, first_fetch, http_gets,
                   cache_hit, failed, origin, written, uploaded_file, url, load_btn, topk,
                   threshold, do_center_crop, model, image, errors, shown, trigger,
                   before, before_shown, cropVars, filterVars>>

\* Lines 77-83: what the block assigns when uploaded_file.read() returns the
\* file's bytes (readOk) or raises.
FileUploadAssign(file, readOk) ==
    IF file # NoFile /\ readOk THEN UploadAssign(file) ELSE NoAssign

\* uploaded_file is Streamlit's UploadedFile, an in-memory io.BytesIO made
\* afresh for every rerun: read() returns the whole file and does not raise.
ReadOutcomes == {TRUE}

FileUpload ==
    /\ pc = "file_upload"
    /\ \E readOk \in ReadOutcomes :
         LET asg == FileUploadAssign(uploaded_file, readOk) IN
           /\ session_state' = Assign(session_state, asg)
           /\ written' = DOMAIN asg
           /\ origin' = IF "img_bytes" \in DOMAIN asg THEN "uploader" ELSE origin
           /\ errors' = IF uploaded_file # NoFile /\ ~readOk
                        THEN errors \cup {"read"} ELSE errors
    /\ pc' = "url_load"
    /\ UNCHANGED <<model_cache, model_loads, url_cache, first_fetch, http_gets,
                   cache_hit, failed, uploaded_file, url, load_btn, topk, threshold,
                   do_center_crop, model, image, shown, trigger, before,
                   before_shown, cropVars, filterVars>>

\* Lines 89-97: what the block assigns, given what fetch_image_from_url gave.
UrlLoadAssign(result) ==
    IF result.ok THEN UrlAssign(SavePng(result.img)) ELSE NoAssign

\* Lines 86-97 with the button clicked and a URL in the field.
UrlLoad ==
    /\ pc = "url_load"
    /\ load_btn /\ url # ""
    /\ \E resp \in Responses :
         LET f == fetch_image_from_url(url_cache[url], resp)
             asg == UrlLoadAssign(f.result)
         IN
           /\ url_cache' = [url_cache EXCEPT ![url] = f.entry]
           /\ http_gets' = http_gets + f.gets
           /\ cache_hit' = (first_fetch[url] # NoneImage)
           /\ first_fetch' =
                IF f.gets = 1 /\ f.result.ok /\ first_fetch[url] = NoneImage
                THEN [first_fetch EXCEPT ![url] = f.result.img] ELSE first_fetch
           /\ session_state' = Assign(session_state, asg)
           /\ written' = DOMAIN asg
           /\ origin' = IF "img_bytes" \in DOMAIN asg THEN "url_fetch" ELSE origin
           /\ errors' = IF f.result.ok THEN errors ELSE errors \cup {"url"}
           /\ failed' = IF f.result.ok THEN failed ELSE failed \cup {url}
    /\ pc' = "decode"
    /\ UNCHANGED <<model_cache, model_loads, uploaded_file, url, load_btn, topk,
                   threshold, do_center_crop, model, image, shown, trigger, before,
                   before_shown, cropVars, filterVars>>

\* Line 89 with the button not clicked, or nothing in the field.
UrlSkip ==
    /\ pc = "url_load"
    /\ ~(load_btn /\ url # "")
    /\ pc' = "decode"
    /\ UNCHANGED <<model_cache, model_loads, url_cache, first_fetch, http_gets,
                   cache_hit, failed, session_state, origin, written, uploaded_file, url,
                   load_btn, topk, threshold, do_center_crop, model, image, errors,
                   shown, trigger, before, before_shown, cropVars, filterVars>>

\* Lines 99-104.
Decode ==
    /\ pc = "decode"
    /\ LET r == DecodeStored(session_state) IN
         /\ image' = r.img
         /\ errors' = IF r.ok THEN errors ELSE errors \cup {"decode"}
    /\ pc' = "show"
    /\ UNCHANGED <<model_cache, model_loads, url_cache, first_fetch, http_gets,
                   cache_hit, failed, session_state, origin, written, uploaded_file, url,
                   load_btn, topk, threshold, do_center_crop, model, shown, trigger,
                   before, before_shown, cropVars, filterVars>>

\* Lines 106-111; the script ends and the button's click is consumed.
Show ==
    /\ pc = "show"
    /\ shown' = Preview(image, session_state)
    /\ load_btn' = FALSE
    /\ pc' = "idle"
    /\ UNCHANGED <<model_cache, model_loads, url_cache, first_fetch, http_gets,
                   cache_hit, failed, session_state, origin, written, uploaded_file, url,
                   topk, threshold, do_center_crop, model, image, errors, trigger,
                   before, before_shown, cropVars, filterVars>>

\* Another session of the process runs line 69.
OtherSessionLoadModel ==
    /\ LET r == load_model(model_cache) IN
         /\ model_cache' = r.entry
         /\ model_loads' = model_loads + r.built
    /\ UNCHANGED <<url_cache, first_fetch, http_gets, cache_hit, failed, session_state,
                   origin, written, uploaded_file, url, load_btn, topk, threshold,
                   do_center_crop, pc, model, image, errors, shown, trigger, before,
                   before_shown, cropVars, filterVars>>

\* Another session of the process, past line 69, runs line 91.
OtherSessionFetch ==
    /\ model_cache # "empty"
    /\ \E u \in URLs, resp \in Responses :
         LET f == fetch_image_from_url(url_cache[u], resp) IN
           /\ url_cache' = [url_cache EXCEPT ![u] = f.entry]
           /\ first_fetch' =
                IF f.gets = 1 /\ f.result.ok /\ first_fetch[u] = NoneImage
                THEN [first_fetch EXCEPT ![u] = f.result.img] ELSE first_fetch
    /\ UNCHANGED <<model_cache, model_loads, http_gets, cache_hit, failed, session_state,
                   origin, written, uploaded_file, url, load_btn, topk, threshold,
                   do_center_crop, pc, model, image, errors, shown, trigger, before,
                   before_shown, cropVars, filterVars>>

Next ==
    \/ OpenPage
    \/ UploadFile
    \/ RemoveFile
    \/ EditUrl
    \/ ClickLoad
    \/ ChangeControl
    \/ LoadModel
    \/ InitState
    \/ FileUpload
    \/ UrlLoad
    \/ UrlSkip
    \/ Decode
    \/ Show
    \/ OtherSessionLoadModel
    \/ OtherSessionFetch

Spec == Init /\ [][Next]_vars

----------------------------------------------------------------------------
(* center_crop_square and the crop step of preprocess_image *)

MaxDim == 8

Min(a, b) == IF a <= b THEN a ELSE b

\* A plausible slip: the excess of the longer axis is not halved.
center_crop_square_unhalved(w, h) ==
    LET side == Min(w, h)
        left == w - side
        top == h - side
    IN <<left, top, left + side, top + side>>

\* center_crop_square: the box (left, top, right, bottom) handed to img.crop.
center_crop_square(w, h) ==
    LET side == Min(w, h)
        left == (w - side) \div 2
        top == (h - side) \div 2
    IN <<left, top, left + side, top + side>>

\* Lines 27-28 of preprocess_image: the region of the image that is resized.
PreprocessRegion(w, h, crop) ==
    IF crop THEN center_crop_square(w, h) ELSE <<0, 0, w, h>>

NoBox == <<0, 0, 0, 0>>

CropInit ==
    /\ AppInit
    /\ FilterIdle
    /\ topk = TopKDefault
    /\ threshold = ThresholdDefault
    /\ do_center_crop \in BOOLEAN
    /\ box_in \in (1..MaxDim) \X (1..MaxDim)
    /\ box_out = NoBox

\* preprocess_image, lines 27-28, on an image of size box_in.
PreprocessCrop ==
    /\ box_out = NoBox
    /\ box_out' = PreprocessRegion(box_in[1], box_in[2], do_center_crop)
    /\ UNCHANGED <<box_in, appVars, filterVars>>

NextCrop == PreprocessCrop

SpecCrop == CropInit /\ [][NextCrop]_vars

----------------------------------------------------------------------------
(* The filter of the predictions list (Presentation, "Filtering logic") *)

MaxPreds == 5

\* Probabilities the ranked list is drawn from, in hundredths.
ProbStops == {1, 8, 30, 60}

\* Positions of the threshold slider the filter is tried at, in hundredths.
ThresholdStops == {ThresholdMin, ThresholdDefault, 8, 50, ThresholdMax}

\* The ranked lists: probabilities in descending order.
RankedLists ==
    {s \in UNION {[1..n -> ProbStops] : n \in 0..MaxPreds} :
        \A i \in 1..(Len(s) - 1) : s[i] >= s[i + 1]}

Head_(s, k) == SubSeq(s, 1, Min(k, Len(s)))

\* A plausible slip: an entry equal to the threshold is dropped.
FilterPredictionsStrict(ranked, t, k) ==
    Head_(SelectSeq(ranked, LAMBDA p : p > t), k)

\* Entries below the threshold are dropped, then the first Top-K are kept.
FilterPredictions(ranked, t, k) ==
    Head_(SelectSeq(ranked, LAMBDA p : p >= t), k)

Pending == <<-1>>

FilterInit ==
    /\ AppInit
    /\ CropIdle
    /\ do_center_crop = TRUE
    /\ topk \in TopKRange
    /\ threshold \in ThresholdStops
    /\ preds \in RankedLists
    /\ results = Pending

\* The results area lists the filtered predictions.
ListPredictions ==
    /\ results = Pending
    /\ results' = FilterPredictions(preds, threshold, topk)
    /\ UNCHANGED <<preds, appVars, cropVars>>

NextFilter == ListPredictions

SpecFilter == FilterInit /\ [][NextFilter]_vars

----------------------------------------------------------------------------
(* Properties *)

\* A rerun has run to its last line.
Completed == pc = "idle" /\ trigger # "none"

\* The rerun is not the session's first.
NotFirstRerun == before_shown.what # "none"

\* The file picker is empty or holds a picture.
PickerSound == uploaded_file = NoFile \/ Decodable(uploaded_file)

\* Bytes are stored and no decoder accepts them.
StoredJunk(ss) == ss.img_bytes \notin {NoneBytes, AbsentBytes} /\ ~Decodable(ss.img_bytes)

\* Session state holds a picture.
StoredImage(ss) == ss.img_bytes \notin {NoneBytes, AbsentBytes} /\ Decodable(ss.img_bytes)

\* The rerun was a click with a URL in the field, and is past the URL block.
UrlRequested ==
    /\ trigger = "click" /\ url # ""
    /\ pc \in {"decode", "show", "idle"}

\* C1: after a completed rerun whose URL load failed (not the session's
\* first rerun, the file picker holds nothing that fails to decode), both session
\* fields hold the values they held when the rerun started, and the picture
\* that was displayed before is displayed again.
C1_FailedUrlLoadKeepsSession ==
    (Completed /\ NotFirstRerun /\ PickerSound /\ UrlRequested /\ "url" \in errors) =>
        /\ session_state = before
        /\ before_shown.what = "image" => shown = before_shown

\* C2: after a completed rerun started by picking a file that is no picture,
\* while session state held a picture, both session fields hold the values they
\* held when the rerun started and that picture is still displayed.
C2_BadUploadKeepsImage ==
    (Completed /\ trigger = "upload" /\ ~Decodable(uploaded_file) /\ StoredImage(before)) =>
        /\ session_state = before
        /\ shown = before_shown

\* C3: a completed rerun with no load action (a sidebar control moved, the URL
\* field edited, the file removed from the picker; not the session's
\* first rerun, the file picker holds nothing that fails to decode) leaves the
\* stored picture and its source tag as they were, in particular a picture
\* loaded from a URL while a file is selected.
C3_NoLoadActionKeepsImage ==
    (Completed /\ NotFirstRerun /\ PickerSound /\ trigger \in {"control", "edit", "remove"}) =>
        session_state = before

\* C4: the two session fields are a pair: both missing, both None, or bytes
\* with the tag of the block that stored them ("file" for the uploader, "URL"
\* for the URL fetch); a load block assigns both fields or neither.
C4_FieldsPaired ==
    /\ session_state.img_bytes = AbsentBytes <=> session_state.img_source = "absent"
    /\ session_state.img_bytes = NoneBytes <=> session_state.img_source = "None"
    /\ session_state.img_source \in {"absent", "None", "file", "URL"}
    /\ session_state.img_source = "file" <=> origin = "uploader"
    /\ session_state.img_source = "URL" <=> origin = "url_fetch"
    /\ written \in {{}, {"img_bytes", "img_source"}}

\* C4 witness: a URL load has replaced a file's picture, and the stored bytes
\* equal the bytes of the file in the picker while the tag says "URL".
C4_Witness ==
    /\ Completed
    /\ before.img_source = "file"
    /\ session_state.img_source = "URL"
    /\ session_state.img_bytes = uploaded_file
    /\ written = {"img_bytes", "img_source"}

\* C5: a load request for a URL that has been fetched successfully before
\* issues no GET, does not fail, and stores (and displays) the picture of the
\* first successful fetch, tagged "URL".
C5_RepeatedFetchShortCircuits ==
    (UrlRequested /\ cache_hit) =>
        /\ http_gets = 0
        /\ "url" \notin errors
        /\ session_state.img_bytes = SavePng(first_fetch[url])
        /\ session_state.img_source = "URL"
        /\ pc = "idle" => shown.what = "image" /\ shown.image = first_fetch[url]

\* C5 witness: with a URL picture stored, a click on another URL that has been
\* fetched before is answered without a GET and replaces the stored picture.
C5_Witness ==
    /\ Completed /\ UrlRequested /\ cache_hit
    /\ http_gets = 0
    /\ shown.what = "image"
    /\ before.img_source = "URL"
    /\ before.img_bytes # session_state.img_bytes

\* C6: the model is built at most once in the process, whatever the sessions
\* do; once built, every rerun past line 69 holds that one handle.
C6_ModelBuiltOnce ==
    /\ model_loads <= 1
    /\ model_cache # "empty" <=> model_loads = 1
    /\ pc \notin {"idle", "load_model"} => model = "MobileNetV2" /\ model = model_cache

\* C6 witness: the model has been built once and the session has finished a
\* rerun started by a control, after a rerun that loaded from a URL.
C6_Witness ==
    /\ Completed
    /\ model_loads = 1
    /\ trigger = "control"
    /\ before.img_source = "URL"

\* C9: a completed rerun that started with undecodable bytes in session state
\* either leaves them stored, reports the decode error and shows the hint
\* instead of a picture, or ends with a picture that a load of this rerun
\* stored; and whenever a completed rerun ends with undecodable bytes stored,
\* the decode error is on the page and no picture is.
C9_StoredJunkReported ==
    /\ (Completed /\ StoredJunk(session_state)) =>
          /\ "decode" \in errors
          /\ shown.what = "hint"
    /\ (Completed /\ StoredJunk(before)) =>
          \/ session_state = before
          \/ /\ StoredImage(session_state)
             /\ written = {"img_bytes", "img_source"}
             /\ shown.what = "image"

\* C9 witness: the junk file was removed from the picker and the rerun still
\* reports the decode error of the stored bytes.
C9_Witness ==
    /\ Completed
    /\ trigger = "remove"
    /\ StoredJunk(before)
    /\ session_state = before
    /\ "decode" \in errors
    /\ shown.what = "hint"

\* C10: a rerun issues at most one GET; no failure is memoized: a load request
\* for a URL that was never fetched successfully, failed before or not, issues
\* exactly one GET, and when that GET succeeds session state is the fetched
\* picture with tag "URL".
C10_FailureNotMemoized ==
    /\ http_gets <= 1
    /\ \A u \in URLs : url_cache[u].kind # "error"
    /\ (UrlRequested /\ ~cache_hit) =>
          /\ http_gets = 1
          /\ "url" \notin errors =>
                /\ first_fetch[url] # NoneImage
                /\ session_state.img_bytes = SavePng(first_fetch[url])
                /\ session_state.img_source = "URL"
          /\ "url" \in errors => url \in failed

\* C10 witness: a click on a URL that failed earlier in this session, never
\* fetched before, succeeds with one GET.
C10_Witness ==
    /\ Completed /\ UrlRequested /\ ~cache_hit
    /\ url \in failed
    /\ http_gets = 1
    /\ "url" \notin errors
    /\ session_state.img_source = "URL"
    /\ shown.what = "image"

\* C7: the listed predictions are the entries of the ranked list that are not
\* below the threshold, cut to the first Top-K: as many as
\* min(K, count(p >= T)), the leading entries of the ranked list in its order
\* (descending), none below T.
C7_FilterThenCut ==
    results # Pending =>
        LET kept == {i \in 1..Len(preds) : preds[i] >= threshold} IN
          /\ Len(results) = Min(topk, Cardinality(kept))
          /\ results = SubSeq(preds, 1, Len(results))
          /\ \A i \in 1..(Len(results) - 1) : results[i] >= results[i + 1]
          /\ \A i \in 1..Len(results) : results[i] >= threshold

\* C7 witness: [0.6, 0.3, 0.08, 0.01, 0.01] with K = 3 and T = 0.08 lists
\* three entries, the last one equal to the threshold.
C7_Witness ==
    /\ preds = <<60, 30, 8, 1, 1>>
    /\ topk = 3
    /\ threshold = 8
    /\ results = <<60, 30, 8>>

\* C8: with cropping on, the crop box of a w x h image is a square of side
\* min(w, h) inside the image; the whole image when w = h; the shorter axis
\* untrimmed; the longer axis trimmed by floor(excess / 2) on the low side and
\* by the rest on the high side, the two differing by one exactly when the
\* excess is odd.
C8_CenterCropSquare ==
    (box_out # NoBox /\ do_center_crop) =>
        LET w == box_in[1]
            h == box_in[2]
            side == Min(w, h)
            left == box_out[1]
            top == box_out[2]
            right == box_out[3]
            bottom == box_out[4]
        IN
          /\ right - left = side /\ bottom - top = side
          /\ 0 <= left /\ right <= w /\ 0 <= top /\ bottom <= h
          /\ w = h => box_out = <<0, 0, w, h>>
          /\ w >= h => top = 0 /\ bottom = h /\ left = (w - h) \div 2
          /\ h >= w => left = 0 /\ right = w /\ top = (h - w) \div 2
          /\ (w - right) - left = (w - side) % 2
          /\ (h - bottom) - top = (h - side) % 2

\* C8 witness: a wide image with an odd excess has been cropped.
C8_Witness ==
    /\ do_center_crop
    /\ box_in = <<8, 3>>
    /\ box_out = <<2, 0, 5, 3>>

====
